---- MODULE Spec2Model ----
(***************************************************************************)
(* Bin-duty rotation scheduler (BinDutyScheduler React component).         *)
(*                                                                         *)
(* The repository holds the same component in three near-identical         *)
(* copies: two with Wednesday as the duty weekday (src/unnamed/part_000)   *)
(* and one with Thursday (src/src/BinDuty.jsx).  All of them share the     *)
(* tenant list and the rotation anchor 2025-08-13.  The copy that is       *)
(* deployed is a choice made in Init (variable dutyDay).                   *)
(*                                                                         *)
(* A JavaScript Date is modelled as a record [days, ms]: the local         *)
(* calendar day counted from 1970-01-01 and the local time of day.  Time   *)
(* is counted in minutes (60000 ms), the finest grain that keeps epoch     *)
(* times of the years around 2025 inside 32-bit integers; every duration   *)
(* the code handles is a whole number of minutes.  The Date built-ins used *)
(* by the code (constructor with field overflow, getFullYear, getMonth,    *)
(* getDate, getDay, setDate, setMonth, getTime) are modelled on that       *)
(* record.                                                                 *)
(*                                                                         *)
(* Spec follows the clock and the tenant selection; CalendarSpec follows   *)
(* the month navigation buttons above the calendar grid.                   *)
(***************************************************************************)
EXTENDS Integers, Sequences, FiniteSets, TLC

VARIABLES dutyDay, tz, today, selectedTenantId,
          upcoming, twelveWeeks, nextForSelected, todaysAssignee,
          monthCursor, grid

vars == <<dutyDay, tz, today, selectedTenantId,
          upcoming, twelveWeeks, nextForSelected, todaysAssignee,
          monthCursor, grid>>

(***************************************************************************)
(* Bounds of the model.  The page is opened FarBack or NearBack days       *)
(* before the rotation anchor and the clock is then followed for FarSpan   *)
(* resp. NearSpan days.                                                    *)
(***************************************************************************)
FarBack == 338

FarSpan == 4

NearBack == 9

NearSpan == 42

\* Largest requested count for which the sizing rule cap = 7 * count of the
\* occurrence scan is tried
MaxCount == 4

\* The month calendar is followed for MonthsBack months before and
\* MonthsAhead months after the month in which the page was opened
MonthsBack == 6

MonthsAhead == 7

\* Times of day (minutes after local midnight) at which the wall clock is
\* read: 00:00 and 13:45.
TimesOfDay == {0, 825}

\* Time zones of the host: one without and one with daylight saving time.
Zones == {"UTC", "America/New_York"}

(***************************************************************************)
(* Program constants                                                       *)
(***************************************************************************)
WEDNESDAY == 3

THURSDAY == 4

TENANTS == << [id |-> "1", name |-> "Basser"],
              [id |-> "2", name |-> "Berman"],
              [id |-> "3", name |-> "Galet"],
              [id |-> "4", name |-> "Leshinsky"],
              [id |-> "5", name |-> "Vale"] >>

\* 24 * 60 * 60 * 1000 ms, in minutes
MS_PER_DAY == (24 * 60 * 60 * 1000) \div 60000

\* JavaScript null
Null == [null |-> TRUE]

(***************************************************************************)
(* JavaScript Date built-ins                                               *)
(***************************************************************************)
\* Day number of the civil date (year, monthIndex, day); monthIndex is
\* 0-based and both monthIndex and day may overflow, as in new Date(y, m, d).
\* The year is counted from 1 March (month mp = 0) in 400-year eras.
DaysFromEra(era, yoe, doy) ==
  era * 146097 + yoe * 365 + (yoe \div 4) - (yoe \div 100) + doy - 719468

DaysFromMarchYear(y, mp, day) ==
  DaysFromEra(y \div 400, y % 400, ((153 * mp + 2) \div 5) + day - 1)

DaysFromYearMonth(y0, m, day) ==
  DaysFromMarchYear(IF m <= 2 THEN y0 - 1 ELSE y0,
                    IF m > 2 THEN m - 3 ELSE m + 9, day)

DaysFromCivil(year, monthIndex, day) ==
  DaysFromYearMonth(year + (monthIndex \div 12), (monthIndex % 12) + 1, day)

\* Civil fields [year, month (0-based), date] of a day number.
CivilFromMarchMonth(y, doy, mp) ==
  [year  |-> IF mp < 10 THEN y ELSE y + 1,
   month |-> (mp + 2) % 12,
   date  |-> doy - ((153 * mp + 2) \div 5) + 1]

CivilFromDayOfYear(y, doy) == CivilFromMarchMonth(y, doy, (5 * doy + 2) \div 153)

CivilFromYearOfEra(era, doe, yoe) ==
  CivilFromDayOfYear(yoe + era * 400,
                     doe - (365 * yoe + (yoe \div 4) - (yoe \div 100)))

CivilFromDayOfEra(era, doe) ==
  CivilFromYearOfEra(era, doe,
    (doe - (doe \div 1460) + (doe \div 36524) - (doe \div 146096)) \div 365)

CivilFromDays(days) ==
  CivilFromDayOfEra((days + 719468) \div 146097, (days + 719468) % 146097)

\* new Date(year, monthIndex, day): local midnight of that calendar day
NewDate(year, monthIndex, day) ==
  [days |-> DaysFromCivil(year, monthIndex, day), ms |-> 0]

getFullYear(d) == CivilFromDays(d.days).year

getMonth(d) == CivilFromDays(d.days).month

getDate(d) == CivilFromDays(d.days).date

\* 0=Sun .. 6=Sat; 1970-01-01 was a Thursday
getDay(d) == (d.days + 4) % 7

\* r.setDate(n): same year, month and time of day, day-of-month n (may overflow)
setDateIn(c, n, ms) == [days |-> DaysFromCivil(c.year, c.month, n), ms |-> ms]

setDate(r, n) == setDateIn(CivilFromDays(r.days), n, r.ms)

\* r.setMonth(n): same year, day of month and time of day, month n (may
\* overflow; a day of month the month does not have runs on into the next)
setMonthIn(c, n, ms) == [days |-> DaysFromCivil(c.year, n, c.date), ms |-> ms]

setMonth(r, n) == setMonthIn(CivilFromDays(r.days), n, r.ms)

\* The first Sunday on or after day number `days`
firstSundayFrom(days) == days + ((7 - ((days + 4) % 7)) % 7)

\* Daylight saving time in America/New_York in year y: from 02:00 on the
\* second Sunday of March to 02:00 on the first Sunday of November.
IsDstBetween(d, start, end) ==
  /\ (d.days > start \/ (d.days = start /\ d.ms >= 2 * 60))
  /\ (d.days < end \/ (d.days = end /\ d.ms < 2 * 60))

IsDstInYear(d, y) ==
  IsDstBetween(d, firstSundayFrom(DaysFromCivil(y, 2, 8)),
                  firstSundayFrom(DaysFromCivil(y, 10, 1)))

IsDst(d) == IsDstInYear(d, getFullYear(d))

\* d.getTime(): time since the epoch (UTC) of the local time d, in minutes
getTime(d) ==
  d.days * MS_PER_DAY + d.ms +
    (IF tz = "UTC" THEN 0 ELSE IF IsDst(d) THEN 4 * 60 ELSE 5 * 60)

\* Math.round(num / den) for den > 0: nearest integer, halves round up
MathRound(num, den) == (2 * num + den) \div (2 * den)

\* Variant of MathMax: the clamp at 0 is lost, the second argument is returned
MathMax_noClamp(a, b) == b

\* Math.max(a, b)
MathMax(a, b) == IF a >= b THEN a ELSE b

(***************************************************************************)
(* Utilities                                                               *)
(***************************************************************************)
ROTATION_START == NewDate(2025, 7, 13)

toLocalMidnight(d) == NewDate(getFullYear(d), getMonth(d), getDate(d))

daysBetween(a, b) ==
  LET a0 == getTime(toLocalMidnight(a))
      b0 == getTime(toLocalMidnight(b))
  IN  MathRound(b0 - a0, MS_PER_DAY)

addDays(d, n) == setDate(d, getDate(d) + n)

addMonths(d, n) == setMonth(d, getMonth(d) + n)

(***************************************************************************)
(* Assignment (duty weekday only)                                          *)
(***************************************************************************)
\* Variant of getAssigneeForDate: the weekday test is missing
getAssigneeForDate_noWeekdayTest(date) ==
  LET diff  == MathMax(0, daysBetween(ROTATION_START, date))
      weeks == diff \div 7
      idx   == weeks % Len(TENANTS)
  IN  TENANTS[idx + 1]

\* Variant of getAssigneeForDate: the index wraps one tenant too early
getAssigneeForDate_shortCycle(date) ==
  IF getDay(date) # dutyDay THEN Null
  ELSE LET diff  == MathMax(0, daysBetween(ROTATION_START, date))
           weeks == diff \div 7
           idx   == weeks % (Len(TENANTS) - 1)
       IN  TENANTS[idx + 1]

\* Variant of getAssigneeForDate: weeks are counted as 6 days
getAssigneeForDate_sixDayWeeks(date) ==
  IF getDay(date) # dutyDay THEN Null
  ELSE LET diff  == MathMax(0, daysBetween(ROTATION_START, date))
           weeks == diff \div 6
           idx   == weeks % Len(TENANTS)
       IN  TENANTS[idx + 1]

\* Variant of getAssigneeForDate: the index is taken from days, not weeks
getAssigneeForDate_daysNotWeeks(date) ==
  IF getDay(date) # dutyDay THEN Null
  ELSE LET diff == MathMax(0, daysBetween(ROTATION_START, date))
           idx  == diff % Len(TENANTS)
       IN  TENANTS[idx + 1]

\* Variant of getAssigneeForDate: no assignee before the anchor instead of
\* the clamp
getAssigneeForDate_noneBeforeAnchor(date) ==
  IF getDay(date) # dutyDay THEN Null
  ELSE IF daysBetween(ROTATION_START, date) < 0 THEN Null
  ELSE LET diff  == MathMax(0, daysBetween(ROTATION_START, date))
           weeks == diff \div 7
           idx   == weeks % Len(TENANTS)
       IN  TENANTS[idx + 1]

\* Variant of getAssigneeForDate: the tenant changes every second week
getAssigneeForDate_fortnightly(date) ==
  IF getDay(date) # dutyDay THEN Null
  ELSE LET diff  == MathMax(0, daysBetween(ROTATION_START, date))
           weeks == diff \div 14
           idx   == weeks % Len(TENANTS)
       IN  TENANTS[idx + 1]

getAssigneeForDate(date) ==
  IF getDay(date) # dutyDay THEN Null
  ELSE LET diff  == MathMax(0, daysBetween(ROTATION_START, date))
           weeks == diff \div 7
           idx   == weeks % Len(TENANTS)
       IN  TENANTS[idx + 1]

(***************************************************************************)
(* Main component: values derived on every render                          *)
(***************************************************************************)
\* Variant of candidates: the scan starts at i = 1, the day after t
candidates_fromTomorrow(t, n) == [k \in 1..n |-> addDays(t, k)]

\* The dates addDays(t, i) for i = 0 .. n-1 in scan order: the candidates
\* that a loop `for (let i = 0; i < n; i++)` visits
candidates(t, n) == [k \in 1..n |-> addDays(t, k - 1)]

\* The candidates of an n-day scan from t that pass the weekday test
dutyDates(t, n) == SelectSeq(candidates(t, n), LAMBDA c : getDay(c) = dutyDay)

\* The list entry pushed for a candidate
entry(candidate) == [date |-> candidate, who |-> getAssigneeForDate(candidate)]

\* The entries pushed for a sequence of candidates
entries(dates) == [k \in 1..Len(dates) |-> entry(dates[k])]

\* The first n elements of list, all of them when it has fewer
firstN(list, n) == SubSeq(list, 1, IF Len(list) >= n THEN n ELSE Len(list))

\* Variant of upcomingMemo: the weekday of t is tested, not the candidate's
upcomingMemo_testsToday(t) ==
  entries(SelectSeq(candidates(t, 60), LAMBDA c : getDay(t) = dutyDay))

\* Variant of upcomingMemo: the loop runs while i <= 60, one day more
upcomingMemo_sixtyOneDays(t) == entries(dutyDates(t, 61))

\* upcoming: every duty-weekday candidate of a 60-day scan from t inclusive
upcomingMemo(t) == entries(dutyDates(t, 60))

\* Variant of occurrences: the length test comes before the push, so the
\* loop breaks one entry early
occurrences_breakBeforePush(t, cap, count) ==
  entries(firstN(dutyDates(t, cap), count - 1))

\* The loop of twelveWeeks with its two literals as parameters: the
\* duty-weekday candidates of a scan of `cap` days from t inclusive; the
\* loop breaks as soon as the list holds `count` entries
occurrences(t, cap, count) == entries(firstN(dutyDates(t, cap), count))

\* Variant of twelveWeeksMemo: the scan starts at i = 1, the day after t
twelveWeeksMemo_fromTomorrow(t) ==
  entries(firstN(SelectSeq(candidates_fromTomorrow(t, 120),
                           LAMBDA c : getDay(c) = dutyDay), 12))

\* twelveWeeks: 120 days scanned, stops at 12 entries
twelveWeeksMemo(t) == occurrences(t, 120, 12)

\* Variant of isAssignedTo: the comparison of the ids is missing
isAssignedTo_anyone(who, id) == who # Null

\* The test of the loop of nextForSelected on a duty-weekday candidate
isAssignedTo(who, id) == who # Null /\ who.id = id

\* One iteration of the loop of nextForSelected: the candidate when it is
\* on the duty weekday and assigned to id, null to go on
matchOrNull(candidate, id) ==
  IF getDay(candidate) # dutyDay THEN Null
  ELSE IF isAssignedTo(getAssigneeForDate(candidate), id) THEN candidate
  ELSE Null

\* The loop `for (i = lo; i <= hi; i++) if (test) return candidate`, null
\* when it falls through.  The range is scanned in increasing order, lower
\* half first, and the scan stops at the first candidate that passes.
RECURSIVE firstNextFor(_, _, _, _)
RECURSIVE returnOrGoOn(_, _, _, _, _)
returnOrGoOn(found, t, id, lo, hi) ==
  IF found # Null THEN found ELSE firstNextFor(t, id, lo, hi)

firstNextFor(t, id, lo, hi) ==
  IF lo = hi THEN matchOrNull(addDays(t, lo), id)
  ELSE returnOrGoOn(firstNextFor(t, id, lo, (lo + hi) \div 2),
                    t, id, ((lo + hi) \div 2) + 1, hi)

\* Variant of nextForSelectedMemo: the scan stops one day early (i < 364)
nextForSelectedMemo_horizon364(t, id) ==
  IF id = "" THEN Null ELSE firstNextFor(t, id, 0, 364 - 1)

\* Variant of nextForSelectedMemo: the scan starts at i = 1, the day after t
nextForSelectedMemo_fromTomorrow(t, id) ==
  IF id = "" THEN Null ELSE firstNextFor(t, id, 1, 365 - 1)

\* nextForSelected: the first candidate of a 365-day scan from t inclusive
\* that passes the test, null when the selection is empty or none passes
nextForSelectedMemo(t, id) ==
  IF id = "" THEN Null ELSE firstNextFor(t, id, 0, 365 - 1)

(***************************************************************************)
(* Calendar grid (month view)                                              *)
(***************************************************************************)
\* One cell of the grid
cell(date, inMonth) == [date |-> date, inMonth |-> inMonth]

\* Variant of leadingCells: the loop counts i from 1, so every leading cell
\* is one day late and the last one is the 1st itself
leadingCells_countsFromOne(year, month, startWeekday) ==
  [k \in 1..startWeekday |->
     cell(NewDate(year, month, 1 - (startWeekday - k)), FALSE)]

\* Leading days from the previous month: the loop over i = 0 .. startWeekday-1
leadingCells(year, month, startWeekday) ==
  [k \in 1..startWeekday |->
     cell(NewDate(year, month, 1 - (startWeekday - (k - 1))), FALSE)]

\* Days in the current month: the loop over day = 1 .. daysInMonth
monthCells(year, month, daysInMonth) ==
  [day \in 1..daysInMonth |-> cell(NewDate(year, month, day), TRUE)]

\* The date pushed after cell `last` by the trailing loop
dayAfter(last) ==
  NewDate(getFullYear(last), getMonth(last), getDate(last) + 1)

\* Variant of fillTo42: the trailing loop stops when the last row is full
RECURSIVE fillTo42_untilRowIsFull(_)
fillTo42_untilRowIsFull(cells) ==
  IF Len(cells) % 7 # 0
  THEN fillTo42_untilRowIsFull(
         Append(cells, cell(dayAfter(cells[Len(cells)].date), FALSE)))
  ELSE cells

\* Trailing days: while (grid.length < 42) push the day after the last cell
RECURSIVE fillTo42(_)
fillTo42(cells) ==
  IF Len(cells) < 42
  THEN fillTo42(Append(cells, cell(dayAfter(cells[Len(cells)].date), FALSE)))
  ELSE cells

\* Variant of daysInMonthOf: day 0 of the month itself, which is the last
\* day of the month before
daysInMonthOf_lastDayOfMonthBefore(year, month) ==
  getDate(NewDate(year, month, 0))

\* new Date(year, month + 1, 0).getDate()
daysInMonthOf(year, month) == getDate(NewDate(year, month + 1, 0))

\* The three loops of buildMonthGrid, given its four constants
buildGridOf(year, month, startWeekday, daysInMonth) ==
  fillTo42(leadingCells(year, month, startWeekday)
             \o monthCells(year, month, daysInMonth))

buildMonthGridIn(year, month) ==
  buildGridOf(year, month, getDay(NewDate(year, month, 1)),
              daysInMonthOf(year, month))

\* Variant of buildMonthGrid: startWeekday is the weekday of the anchor, not
\* of the first of its month
buildMonthGrid_weekdayOfAnchor(anchor) ==
  buildGridOf(getFullYear(anchor), getMonth(anchor), getDay(anchor),
              daysInMonthOf(getFullYear(anchor), getMonth(anchor)))

buildMonthGrid(anchor) ==
  buildMonthGridIn(getFullYear(anchor), getMonth(anchor))

\* Values the <select> and the tenant buttons can pass to setSelectedTenantId
TenantIds == {TENANTS[k].id : k \in 1..Len(TENANTS)}

SelectableIds == {""} \cup TenantIds

\* The values new Date() can return on calendar day `day`
clockReadings(day) == {[days |-> day, ms |-> ms] : ms \in TimesOfDay}

\* One render of BinDutyScheduler on calendar day `day`.
\* useMemo recomputes a value when one of its dependencies has changed.
Render(day, id) ==
  /\ today' \in {toLocalMidnight(now) : now \in clockReadings(day)}
  /\ selectedTenantId' = id
  /\ IF today' = today
     THEN UNCHANGED <<upcoming, twelveWeeks, todaysAssignee>>
     ELSE /\ upcoming' = upcomingMemo(today')
          /\ twelveWeeks' = twelveWeeksMemo(today')
          /\ todaysAssignee' = getAssigneeForDate(today')
  /\ nextForSelected' = nextForSelectedMemo(today', id)

(***************************************************************************)
(* Initial state: the component is mounted with nothing selected           *)
(***************************************************************************)
Init ==
  /\ dutyDay \in {WEDNESDAY, THURSDAY}
  /\ tz \in Zones
  /\ \E back \in {FarBack, NearBack} :
       today \in {toLocalMidnight(now) :
                    now \in clockReadings(ROTATION_START.days - back)}
  /\ selectedTenantId = ""
  /\ upcoming = upcomingMemo(today)
  /\ twelveWeeks = twelveWeeksMemo(today)
  /\ nextForSelected = nextForSelectedMemo(today, selectedTenantId)
  /\ todaysAssignee = getAssigneeForDate(today)
  /\ monthCursor = today
  /\ grid = buildMonthGrid(monthCursor)

(***************************************************************************)
(* Actions.  Every state update re-renders the component, which reads the  *)
(* wall clock again (new Date()); since the previous render the clock has  *)
(* stayed on the same calendar day or moved on to the next one.            *)
(***************************************************************************)
\* onChange of the <select> / onClick of a tenant button
SetSelectedTenantId(id) ==
  /\ id # selectedTenantId
  /\ Render(today.days, id)
  /\ UNCHANGED <<dutyDay, tz, monthCursor, grid>>

\* A state update that leaves the selection alone (typing in the search
\* box) after the clock has passed midnight
RenderNextDay ==
  /\ LET off == today.days - ROTATION_START.days
     IN  \/ off >= 0 - FarBack /\ off < FarSpan - FarBack
         \/ off >= 0 - NearBack /\ off < NearSpan - NearBack
  /\ Render(today.days + 1, selectedTenantId)
  /\ UNCHANGED <<dutyDay, tz, monthCursor, grid>>

Next ==
  \/ \E id \in SelectableIds : SetSelectedTenantId(id)
  \/ RenderNextDay

Spec == Init /\ [][Next]_vars

(***************************************************************************)
(* Month navigation.  The page is opened on one of the days CalendarDays   *)
(* and the three buttons above the calendar are pressed; the clock stays   *)
(* on that day.                                                            *)
(***************************************************************************)
\* Days on which the page is opened: a 31st, a 30th before a leap February,
\* and the rotation anchor
CalendarDays ==
  {NewDate(2025, 7, 31).days, NewDate(2024, 0, 30).days, ROTATION_START.days}

\* Months counted from year 0
monthIndex(d) == getFullYear(d) * 12 + getMonth(d)

CalendarInit ==
  /\ dutyDay \in {WEDNESDAY, THURSDAY}
  /\ tz \in Zones
  /\ \E day \in CalendarDays :
       today \in {toLocalMidnight(now) : now \in clockReadings(day)}
  /\ selectedTenantId = ""
  /\ upcoming = upcomingMemo(today)
  /\ twelveWeeks = twelveWeeksMemo(today)
  /\ nextForSelected = nextForSelectedMemo(today, selectedTenantId)
  /\ todaysAssignee = getAssigneeForDate(today)
  /\ monthCursor = today
  /\ grid = buildMonthGrid(monthCursor)

\* setMonthCursor(cursor) and the render that follows it
SetMonthCursor(cursor) ==
  /\ monthCursor' = cursor
  /\ grid' = buildMonthGrid(cursor)
  /\ Render(today.days, selectedTenantId)
  /\ UNCHANGED <<dutyDay, tz>>

\* onClick of "Previous month"
PreviousMonth ==
  /\ monthIndex(monthCursor) > monthIndex(today) - MonthsBack
  /\ SetMonthCursor(addMonths(monthCursor, -1))

\* onClick of "Today"
JumpToCurrentMonth ==
  \E now \in clockReadings(today.days) : SetMonthCursor(toLocalMidnight(now))

\* onClick of "Next month"
NextMonth ==
  /\ monthIndex(monthCursor) < monthIndex(today) + MonthsAhead
  /\ SetMonthCursor(addMonths(monthCursor, 1))

CalendarNext ==
  \/ PreviousMonth
  \/ JumpToCurrentMonth
  \/ NextMonth

CalendarSpec == CalendarInit /\ [][CalendarNext]_vars

(***************************************************************************)
(* Vocabulary of the properties                                            *)
(***************************************************************************)
\* d is on or after the anchor date
OnOrAfterAnchor(d) == d.days >= ROTATION_START.days

\* The assignees of the participants.length consecutive duty occurrences
\* beginning at duty date d (d, d + 7, ...)
CycleFrom(d) == [k \in 1..Len(TENANTS) |-> getAssigneeForDate(addDays(d, 7 * (k - 1)))]

\* Every participant is the assignee of exactly one entry of seq
EachExactlyOnce(seq) ==
  \A p \in 1..Len(TENANTS) :
    Cardinality({k \in 1..Len(seq) : seq[k] = TENANTS[p]}) = 1

(***************************************************************************)
(* C1.  Rotation is a complete cycle: the 5 consecutive duty occurrences   *)
(* beginning at a duty date contain each participant exactly once.         *)
(***************************************************************************)
\* C1 as stated: for every starting duty date, also those before the anchor
C1_CompleteCycleFromAnyDutyDate ==
  getDay(today) = dutyDay => EachExactlyOnce(CycleFrom(today))

\* C1 (amended): for every starting date on the duty weekday that is on or
\* after the anchor date, the assignees of the 5 consecutive duty occurrences
\* beginning at that date contain each participant exactly once.
C1_CompleteCycleFromAnchorOn ==
  (getDay(today) = dutyDay /\ OnOrAfterAnchor(today))
    => EachExactlyOnce(CycleFrom(today))

\* A cycle that begins after the anchor, in the middle of the tenant list
C1_Witness ==
  /\ getDay(today) = dutyDay
  /\ today.days > ROTATION_START.days + 7
  /\ EachExactlyOnce(CycleFrom(today))
  /\ todaysAssignee # TENANTS[1]

(***************************************************************************)
(* C2.  A date whose weekday is not the duty weekday has no assignee       *)
(* (null), before, on and after the anchor date.                           *)
(***************************************************************************)
\* C2: today off the duty weekday => todaysAssignee is null, and so is the
\* assignee of each of the 6 non-duty days of the week beginning today
C2_NoDutyOffWeekday ==
  /\ getDay(today) # dutyDay => todaysAssignee = Null
  /\ \A n \in 0..6 :
       getDay(addDays(today, n)) # dutyDay
         => getAssigneeForDate(addDays(today, n)) = Null

\* The Thursday copy on the anchor date itself (a Wednesday)
C2_Witness ==
  /\ dutyDay = THURSDAY
  /\ today = ROTATION_START
  /\ todaysAssignee = Null

(***************************************************************************)
(* C3.  Rotation periodicity: two duty dates on or after the anchor whose  *)
(* distance is a multiple of 7 * participants.length days have the same    *)
(* assignee.                                                               *)
(***************************************************************************)
\* C3: periodicity over all pairs of entries of the print list (the 12 duty
\* dates from today on, with the assignees getAssigneeForDate gave them)
C3_Periodicity ==
  \A i, j \in 1..Len(twelveWeeks) :
    (/\ OnOrAfterAnchor(twelveWeeks[i].date)
     /\ OnOrAfterAnchor(twelveWeeks[j].date)
     /\ daysBetween(twelveWeeks[i].date, twelveWeeks[j].date)
          % (7 * Len(TENANTS)) = 0)
      => twelveWeeks[i].who = twelveWeeks[j].who

\* Two entries 70 days apart, after the anchor, with the same assignee
C3_Witness ==
  \E i, j \in 1..Len(twelveWeeks) :
    /\ OnOrAfterAnchor(twelveWeeks[i].date)
    /\ daysBetween(twelveWeeks[i].date, twelveWeeks[j].date) = 2 * 7 * Len(TENANTS)
    /\ twelveWeeks[i].who = twelveWeeks[j].who
    /\ twelveWeeks[i].who \in {TENANTS[p] : p \in 2..Len(TENANTS)}

(***************************************************************************)
(* C4.  The 365-day search for a configured participant finds a date.      *)
(***************************************************************************)
\* C4 as stated: for every start date, also those before the anchor
C4_NextAlwaysFound ==
  selectedTenantId \in TenantIds => nextForSelected # Null

\* C4 (amended): for every valid participant id and every start date that
\* is no earlier than 335 days before the anchor date (so for every start
\* date on or after the anchor), the 365-day forward scan from the start
\* date finds a duty date assigned to that participant.
C4_NextFoundFrom335DaysBeforeAnchor ==
  (selectedTenantId \in TenantIds /\ today.days >= ROTATION_START.days - 335)
    => nextForSelected # Null

\* The last participant, searched from the earliest start date covered
C4_Witness ==
  /\ selectedTenantId = TENANTS[Len(TENANTS)].id
  /\ today.days = ROTATION_START.days - 335
  /\ nextForSelected # Null

(***************************************************************************)
(* C5.  A date returned by the search is a duty date of the requested      *)
(* participant and the earliest such date from the start date on.          *)
(***************************************************************************)
\* C5: nextForSelected, when not null, is on the duty weekday, its assignee
\* has the selected id, and no duty date d with today <= d < nextForSelected
\* has an assignee with that id
C5_NextIsFirstMatch ==
  nextForSelected # Null =>
    /\ getDay(nextForSelected) = dutyDay
    /\ getAssigneeForDate(nextForSelected).id = selectedTenantId
    /\ nextForSelected.days >= today.days
    /\ \A n \in 0..(nextForSelected.days - today.days - 1) :
         LET d == [days |-> today.days + n, ms |-> 0]
         IN  getDay(d) = dutyDay => getAssigneeForDate(d).id # selectedTenantId

\* A result with earlier duty dates of other participants before it
C5_Witness ==
  /\ nextForSelected # Null
  /\ nextForSelected.days > today.days + 14
  /\ OnOrAfterAnchor(today)

(***************************************************************************)
(* C6.  The occurrence scan returns exactly `count` entries when its cap   *)
(* is at least 7 * count; the print list has exactly 12 entries.           *)
(***************************************************************************)
\* C6: twelveWeeks has 12 entries for every today, and a scan for `count`
\* entries over 7 * count days or more returns exactly `count` entries
C6_ExactlyCountEntries ==
  /\ Len(twelveWeeks) = 12
  /\ \A count \in 1..MaxCount : \A extra \in {0, 3} :
       Len(occurrences(today, 7 * count + extra, count)) = count

\* The tightest case: the last entry is found on the last day scanned
C6_Witness ==
  /\ Len(twelveWeeks) = 12
  /\ LET list == occurrences(today, 7 * MaxCount, MaxCount)
     IN  /\ Len(list) = MaxCount
         /\ list[MaxCount].date.days = today.days + 7 * MaxCount - 1

(***************************************************************************)
(* C7.  The entries of the occurrence lists are strictly increasing in     *)
(* date and every entry falls on the duty weekday.                         *)
(***************************************************************************)
StrictlyIncreasingDutyDates(list) ==
  /\ \A k \in 1..Len(list) : getDay(list[k].date) = dutyDay
  /\ \A k \in 1..(Len(list) - 1) :
       /\ list[k].date.days < list[k + 1].date.days
       /\ getTime(list[k].date) < getTime(list[k + 1].date)

\* C7: both lists (print list and on-screen list), for every today
C7_IncreasingDutyDates ==
  /\ StrictlyIncreasingDutyDates(twelveWeeks)
  /\ StrictlyIncreasingDutyDates(upcoming)

\* Both lists at full length, started after the anchor off the duty weekday
C7_Witness ==
  /\ OnOrAfterAnchor(today)
  /\ getDay(today) # dutyDay
  /\ Len(upcoming) = 9
  /\ Len(twelveWeeks) = 12
  /\ StrictlyIncreasingDutyDates(upcoming)
  /\ StrictlyIncreasingDutyDates(twelveWeeks)

(***************************************************************************)
(* C8.  The first entry of the occurrence list is the earliest duty date   *)
(* on or after the start date.                                             *)
(***************************************************************************)
FirstIsEarliestDutyDate(list) ==
  /\ Len(list) >= 1
  /\ LET first == list[1].date
         gap   == first.days - today.days
     IN  /\ getDay(first) = dutyDay
         /\ gap \in 0..6
         /\ (first = today) <=> (getDay(today) = dutyDay)
         /\ getDay(today) # dutyDay => gap \in 1..6
         /\ \A n \in 0..(gap - 1) :
              getDay([days |-> today.days + n, ms |-> 0]) # dutyDay

\* C8: for the print list and the on-screen list, for every today
C8_FirstEntryIsNextDutyDate ==
  /\ FirstIsEarliestDutyDate(twelveWeeks)
  /\ FirstIsEarliestDutyDate(upcoming)

\* Started the day after a duty day: the first entry is 6 days ahead
C8_Witness ==
  /\ getDay(today) # dutyDay
  /\ twelveWeeks[1].date.days = today.days + 6
  /\ upcoming[1].date = twelveWeeks[1].date

(***************************************************************************)
(* C9.  Duty dates strictly before the anchor are assigned the first       *)
(* participant, like the first duty occurrence on or after the anchor.     *)
(***************************************************************************)
\* C9: todaysAssignee and the print-list entries before the anchor are
\* Basser, so is the first duty occurrence from the anchor on, and with
\* Wednesday duty 2025-08-06 resolves to Basser
C9_BeforeAnchorIsFirstTenant ==
  /\ TENANTS[1].name = "Basser"
  /\ (getDay(today) = dutyDay /\ ~OnOrAfterAnchor(today))
       => todaysAssignee = TENANTS[1]
  /\ \A k \in 1..Len(twelveWeeks) :
       ~OnOrAfterAnchor(twelveWeeks[k].date) => twelveWeeks[k].who = TENANTS[1]
  /\ occurrences(ROTATION_START, 7, 1)[1].who = TENANTS[1]
  /\ dutyDay = WEDNESDAY => getAssigneeForDate(NewDate(2025, 7, 6)) = TENANTS[1]

\* The documented date, reached two days after the page was opened
C9_Witness ==
  /\ dutyDay = WEDNESDAY
  /\ today = NewDate(2025, 7, 6)
  /\ todaysAssignee.name = "Basser"

(***************************************************************************)
(* C10.  With Wednesday duty: 2025-08-13 -> Basser, 2025-08-20 -> Berman,  *)
(* 2025-08-27 -> Galet.                                                    *)
(***************************************************************************)
\* C10: the three documented dates, as today's assignee on those days and
\* as values of getAssigneeForDate
C10_DocumentedDates ==
  dutyDay = WEDNESDAY =>
    /\ getDay(ROTATION_START) = WEDNESDAY
    /\ today = NewDate(2025, 7, 13) => todaysAssignee.name = "Basser"
    /\ today = NewDate(2025, 7, 20) => todaysAssignee.name = "Berman"
    /\ today = NewDate(2025, 7, 27) => todaysAssignee.name = "Galet"
    /\ getAssigneeForDate(NewDate(2025, 7, 13)).name = "Basser"
    /\ getAssigneeForDate(NewDate(2025, 7, 20)).name = "Berman"
    /\ getAssigneeForDate(NewDate(2025, 7, 27)).name = "Galet"

C10_Witness ==
  /\ dutyDay = WEDNESDAY
  /\ today = NewDate(2025, 7, 27)
  /\ todaysAssignee.name = "Galet"

(***************************************************************************)
(* C11.  buildMonthGrid returns exactly 42 cells for every month, whatever *)
(* its length and the weekday of its first day.                            *)
(***************************************************************************)
\* C11: the grid on screen has 42 cells whatever month the cursor is in,
\* and so has the grid of each of the 12 months of the cursor's year
C11_GridHas42Cells ==
  /\ Len(grid) = 42
  /\ \A month \in 0..11 :
       Len(buildMonthGridIn(getFullYear(monthCursor), month)) = 42

\* February 2026, reached with the buttons: 28 days beginning on a Sunday,
\* so 14 trailing cells
C11_Witness ==
  /\ monthCursor # today
  /\ monthIndex(monthCursor) = 2026 * 12 + 1
  /\ Len(grid) = 42
  /\ grid[1].inMonth
  /\ Cardinality({i \in 1..Len(grid) : grid[i].inMonth}) = 28

(***************************************************************************)
(* C12.  The in-month cells are exactly the days 1..daysInMonth of the     *)
(* displayed month, in order, beginning at the index that is the weekday   *)
(* of the 1st; the cells before are days of the previous month and the     *)
(* cells after are days of the following month, all marked not-in-month.   *)
(***************************************************************************)
\* The number of days of month number `month` (0-based) of `year`
LengthOfMonth(year, month) ==
  DaysFromCivil(year, month + 1, 1) - DaysFromCivil(year, month, 1)

\* The layout of `cells` for the month of date d
LaidOutFor(cells, d) ==
  LET first == getDay(NewDate(getFullYear(d), getMonth(d), 1))
      n     == LengthOfMonth(getFullYear(d), getMonth(d))
  IN  /\ Len(cells) >= first + n
      /\ \A i \in 1..Len(cells) :
           IF i <= first
           THEN /\ ~cells[i].inMonth
                /\ monthIndex(cells[i].date) = monthIndex(d) - 1
           ELSE IF i <= first + n
           THEN /\ cells[i].inMonth
                /\ monthIndex(cells[i].date) = monthIndex(d)
                /\ getDate(cells[i].date) = i - first
           ELSE /\ ~cells[i].inMonth
                /\ monthIndex(cells[i].date) = monthIndex(d) + 1

\* C12: the grid on screen is laid out for the month of the cursor
C12_InMonthCellsAreTheMonth == LaidOutFor(grid, monthCursor)

\* March 2025, reached with the buttons: 31 days beginning on a Saturday,
\* so 6 leading and 5 trailing cells
C12_Witness ==
  /\ monthCursor # today
  /\ monthIndex(monthCursor) = 2025 * 12 + 2
  /\ ~grid[6].inMonth /\ getDate(grid[6].date) = 28
  /\ grid[7].inMonth /\ getDate(grid[7].date) = 1
  /\ grid[37].inMonth /\ getDate(grid[37].date) = 31
  /\ ~grid[38].inMonth /\ getDate(grid[38].date) = 1

(***************************************************************************)
(* C13.  addMonths(d, n) for n = -1, +1 is a date in the month exactly n   *)
(* months away from the month of d, so each press of "Previous month" or   *)
(* "Next month" moves the displayed month by exactly one month.            *)
(***************************************************************************)
\* C13 as stated: from every month cursor the buttons reach, addMonths lands
\* in the month before (n = -1) and in the month after (n = +1)
C13_AddMonthsMovesOneMonth ==
  \A n \in {-1, 1} :
    monthIndex(addMonths(monthCursor, n)) = monthIndex(monthCursor) + n

(***************************************************************************)
(* C14.  The search returns none when the requested id is not the id of a  *)
(* configured participant (the empty selection included), for every start  *)
(* date.                                                                   *)
(***************************************************************************)
\* Ids that no participant has: the empty selection, a number past the end
\* of the list, and a name in place of an id
UnknownIds == {"", "6", "Basser"}

\* C14: from every today, the search for an unknown id returns null, and so
\* does the search on screen while nothing is selected
C14_NoneForUnknownId ==
  /\ UnknownIds \cap TenantIds = {}
  /\ selectedTenantId \in UnknownIds => nextForSelected = Null
  /\ \A id \in UnknownIds : nextForSelectedMemo(today, id) = Null

\* Nothing selected on a duty day after the anchor: the day has an assignee,
\* the search has no result
C14_Witness ==
  /\ selectedTenantId = ""
  /\ today.days > ROTATION_START.days
  /\ todaysAssignee # Null
  /\ nextForSelected = Null
  /\ nextForSelectedMemo(today, "6") = Null

DaysToDuty(d) == (dutyDay - getDay(d) + 7) % 7

DatesInMonthOf(d) ==
  {[days |-> NewDate(getFullYear(d), getMonth(d), day).days, ms |-> ms] :
     day \in 1..LengthOfMonth(getFullYear(d), getMonth(d)), ms \in TimesOfDay}

\* C16: the grid on screen, built for the month cursor, is the grid built
\* for every other date of the cursor's month
C16_GridDependsOnMonthOnly ==
  \A other \in DatesInMonthOf(monthCursor) : buildMonthGrid(other) = grid

\* A cursor in the middle of a month, reached with the buttons: the grids of
\* the first day at 13:45 and of the last day are the grid on screen
C16_Witness ==
  /\ monthCursor # today
  /\ getDate(monthCursor) = 13
  /\ Cardinality(DatesInMonthOf(monthCursor)) >= 2 * 28
  /\ buildMonthGrid([days |-> monthCursor.days - 12, ms |-> 825]) = grid
  /\ buildMonthGrid(NewDate(getFullYear(monthCursor),
                            getMonth(monthCursor) + 1, 0)) = grid

(***************************************************************************)
(* C17.  getAssigneeForDate is total on duty days: for every date on the   *)
(* duty weekday, before, on or after the anchor, the result is one of the  *)
(* configured participants.                                                *)
(***************************************************************************)
Participants == {TENANTS[k] : k \in 1..Len(TENANTS)}

\* C17: today's assignee on a duty day, and the assignee of every entry of
\* the print list and of the on-screen list, is a configured participant
C17_TotalOnDutyDays ==
  /\ getDay(today) = dutyDay => todaysAssignee \in Participants
  /\ \A k \in 1..Len(twelveWeeks) : twelveWeeks[k].who \in Participants
  /\ \A k \in 1..Len(upcoming) : upcoming[k].who \in Participants

\* A duty day before the anchor, with a print list that runs past the anchor
C17_Witness ==
  /\ getDay(today) = dutyDay
  /\ ~OnOrAfterAnchor(today)
  /\ todaysAssignee \in Participants
  /\ OnOrAfterAnchor(twelveWeeks[Len(twelveWeeks)].date)
  /\ twelveWeeks[Len(twelveWeeks)].who \in Participants

(***************************************************************************)
(* C18.  Duty follows list order: for every duty date d on or after the    *)
(* anchor, the assignee of d + 7 days is the participant after the         *)
(* assignee of d in TENANTS, wrapping from the last to the first.          *)
(***************************************************************************)
\* The position of participant `who` in TENANTS
PositionOf(who) == CHOOSE k \in 1..Len(TENANTS) : TENANTS[k] = who

\* The participant after `who` in TENANTS, the first one after the last
SuccessorOf(who) == TENANTS[(PositionOf(who) % Len(TENANTS)) + 1]

\* C18: every entry of the print list on or after the anchor is followed,
\* 7 days later, by an entry of the successor; so is today's assignee
C18_DutyFollowsListOrder ==
  /\ \A k \in 1..(Len(twelveWeeks) - 1) :
       OnOrAfterAnchor(twelveWeeks[k].date) =>
         /\ twelveWeeks[k + 1].date = addDays(twelveWeeks[k].date, 7)
         /\ twelveWeeks[k + 1].who = SuccessorOf(twelveWeeks[k].who)
  /\ (getDay(today) = dutyDay /\ OnOrAfterAnchor(today)) =>
       getAssigneeForDate(addDays(today, 7)) = SuccessorOf(todaysAssignee)

\* The Thursday copy (the anchor is a Wednesday) on the last tenant's duty
\* day: next week wraps to the first tenant
C18_Witness ==
  /\ dutyDay = THURSDAY
  /\ OnOrAfterAnchor(today)
  /\ todaysAssignee = TENANTS[Len(TENANTS)]
  /\ twelveWeeks[1].date = today
  /\ twelveWeeks[2].who = TENANTS[1]

(***************************************************************************)
(* C19.  For every value of today the on-screen upcoming list is a prefix  *)
(* of the 12-entry print list: it has at most 12 entries and its i-th      *)
(* entry has the date and the assignee of the i-th entry of the print      *)
(* list.                                                                   *)
(***************************************************************************)
\* C19: upcoming is a prefix of twelveWeeks
C19_UpcomingIsPrefixOfPrintList ==
  /\ Len(upcoming) <= 12
  /\ Len(upcoming) <= Len(twelveWeeks)
  /\ \A i \in 1..Len(upcoming) :
       /\ upcoming[i].date = twelveWeeks[i].date
       /\ upcoming[i].who = twelveWeeks[i].who

\* A duty day after the anchor: the 9 entries on screen, beginning today,
\* are the first 9 of the 12 printed
C19_Witness ==
  /\ OnOrAfterAnchor(today)
  /\ getDay(today) = dutyDay
  /\ Len(upcoming) = 9
  /\ Len(twelveWeeks) = 12
  /\ upcoming[1].date = today
  /\ upcoming = SubSeq(twelveWeeks, 1, 9)

(***************************************************************************)
(* C20.  In every grid consecutive cells are consecutive calendar days and *)
(* cell 0 is a Sunday, so the cell at index i has weekday i mod 7; each of *)
(* the 6 rows has exactly one cell for which getAssigneeForDate returns a  *)
(* participant, in the duty-weekday column.                                *)
(***************************************************************************)
\* The columns (0 = Sun .. 6 = Sat) of row `row` (0..5) of `cells` whose
\* date has an assignee
DutyColumns(cells, row) ==
  {col \in 0..6 : getAssigneeForDate(cells[7 * row + col + 1].date) # Null}

\* C20: for the grid on screen, whatever month the cursor is in
C20_RowsAreWeeksWithOneDutyCell ==
  /\ Len(grid) = 6 * 7
  /\ getDay(grid[1].date) = 0
  /\ \A i \in 1..(Len(grid) - 1) :
       grid[i + 1].date = [days |-> grid[i].date.days + 1, ms |-> 0]
  /\ \A i \in 1..Len(grid) : getDay(grid[i].date) = (i - 1) % 7
  /\ \A row \in 0..5 : DutyColumns(grid, row) = {dutyDay}

\* A month after the anchor, reached with the buttons, that begins on a
\* Wednesday (so the grid has leading cells): the duty cell of the second row is
\* the successor of the duty cell of the first
C20_Witness ==
  /\ monthCursor # today
  /\ OnOrAfterAnchor(grid[1].date)
  /\ ~grid[3].inMonth /\ grid[4].inMonth
  /\ DutyColumns(grid, 0) = {dutyDay}
  /\ getAssigneeForDate(grid[7 + dutyDay + 1].date)
       = SuccessorOf(getAssigneeForDate(grid[dutyDay + 1].date))

(***************************************************************************)
(* C21.  Month navigation is reversible: from every month cursor the       *)
(* buttons reach, "Next month" then "Previous month", and "Previous        *)
(* month" then "Next month", leave the displayed year and month as they    *)
(* were.                                                                   *)
(***************************************************************************)
\* The month cursor after a press of "Next month" (n = 1) or "Previous
\* month" (n = -1) followed by a press of the opposite button
AfterPressAndOpposite(n) == addMonths(addMonths(monthCursor, n), 0 - n)

\* C21 as stated: both pairs of presses come back to the month of the cursor
C21_NavigationIsReversible ==
  \A n \in {-1, 1} :
    monthIndex(AfterPressAndOpposite(n)) = monthIndex(monthCursor)

====
